---- MODULE Spec2Model ----
(***************************************************************************)
(* The user/authentication subsystem of node-todo-api                      *)
(* (src/server/models/user.js) and its todo routes, as a state machine     *)
(* over the document store.                                                *)
(*                                                                         *)
(* Every request is a linear sequence of steps; a step is one synchronous  *)
(* stretch of code ending in one store operation, which the store applies  *)
(* atomically.  Requests interleave between steps.                         *)
(***************************************************************************)
EXTENDS Integers, Sequences, FiniteSets, TLC

\* ------------------------------------------------------------- bounds

\* Users the store may hold.
MaxUsers == 2
\* The clock runs through the seconds 0..MaxClock.
MaxClock == 1
\* A document's version (__v) is not raised past this; every stored tokens list
\* is at most as long as its document's version.
MaxVersion == 2
\* Todos the store may hold.
MaxTodos == 3

\* The requests in flight.
Procs == {"r1", "r2"}

\* ---------------------------------------------------------- constants

\* password: { minlength: 8 }
MinPasswordLength == 8

\* process.env.JWT_SECRET, and a key the process does not hold.
JWT_SECRET == "secret"
OtherKey == "not-the-secret"

\* ------------------------------------------------------ email strings

\* An email is a sequence of characters.
RECURSIVE TrimLeft(_)
TrimLeft(s) == IF s # <<>> /\ Head(s) = " " THEN TrimLeft(Tail(s)) ELSE s

RECURSIVE TrimRight(_)
TrimRight(s) ==
  IF s # <<>> /\ s[Len(s)] = " " THEN TrimRight(SubSeq(s, 1, Len(s) - 1)) ELSE s

\* email: { trim: true }: the setter applied when the field is assigned.
Trim(s) == TrimLeft(TrimRight(s))

Positions(s, c) == {i \in 1..Len(s) : s[i] = c}

\* validator.isEmail: one "@", a non-empty local part, a domain with an inner
\* dot, no blanks.
IsEmail(s) ==
  /\ Cardinality(Positions(s, "@")) = 1
  /\ Positions(s, " ") = {}
  /\ LET at == CHOOSE i \in Positions(s, "@") : TRUE
     IN /\ at > 1
        /\ \E d \in Positions(s, ".") : d > at + 1 /\ d < Len(s)

\* ---------------------------------------------------------- passwords

\* A password value: the text it was made from and the salts of the bcrypt
\* hashes applied to it, innermost first.  A plaintext has none.
Plain(text) == [text |-> text, salts |-> <<>>]

\* bcrypt.hash(value, salt)
BcryptHash(value, salt) == [value EXCEPT !.salts = Append(@, salt)]

IsBcryptHash(value) == Len(value.salts) > 0

\* The length mongoose's minlength sees: a bcrypt hash is longer than any bound
\* used here.
MinLengthOk(value) == IsBcryptHash(value) \/ Len(value.text) >= MinPasswordLength

\* ------------------------------------------------------------ tokens

\* user._id.toHexString() and the cast the query applies to decoded._id.
ToHexString(id) == <<"hex", id>>
CastObjectId(hex) == hex[2]

\* jwt.sign(payload, key): the payload gets the issue time and a signature
\* binding payload and key.
JwtSign(payload, key, now) ==
  LET p == [_id |-> payload._id, access |-> payload.access, iat |-> now]
  IN [payload |-> p, sig |-> <<p, key>>]

\* Strings that are no JWT, and the absent header.
GarbageToken == [raw |-> "garbage"]
EmptyToken == [raw |-> ""]
MissingToken == [raw |-> "undefined"]

\* jwt.decode in place of jwt.verify: the payload is read, the signature is not
\* checked.
JwtDecodesOnly(token, key) == "payload" \in DOMAIN token

\* jwt.verify(token, key) returns the payload or throws.
JwtVerifies(token, key) ==
  /\ "payload" \in DOMAIN token
  /\ token.sig = <<token.payload, key>>

\* bcrypt.compare(s, hash, callback): the (err, res) the callback gets.  Either
\* argument not a string is an Error; a hash not in bcrypt's format compares
\* false; otherwise s is hashed with the salt embedded in hash.
Null == [js |-> "null"]
Undefined == [js |-> "undefined"]
IllegalArguments == [js |-> "Error", message |-> "Illegal arguments"]

BcryptCompare(creds, user) ==
  IF "password" \notin DOMAIN creds \/ "password" \notin DOMAIN user
  THEN [err |-> IllegalArguments, res |-> FALSE]
  ELSE IF ~IsBcryptHash(user.password)
  THEN [err |-> Null, res |-> FALSE]
  ELSE LET salt == user.password.salts[Len(user.password.salts)]
       IN [err |-> Null,
           res |-> BcryptHash(Plain(creds.password), salt) = user.password]

\* ------------------------------------------------------------- inputs

EmailA == <<"a", "@", "x", ".", "i">>
EmailB == <<"b", "@", "x", ".", "i">>
\* Raw email strings a request may carry.
EmailInputs == {EmailA, <<" ">> \o EmailA, EmailB, <<"a", "x">>, <<" ">>}

\* Plaintext passwords a request may carry.
PasswordInputs == {"password123", "short"}

\* _.pick(req.body, ['email', 'password']): either field may be missing.
Bodies ==
  [email : EmailInputs, password : PasswordInputs]
    \cup [email : EmailInputs] \cup [password : PasswordInputs]

\* The (email, password) of a login; the password may be missing.
Credentials ==
  [email : {EmailA, EmailB}, password : PasswordInputs \cup {"secret123"}]
    \cup [email : {EmailA, EmailB}]

Salts == {1, 2}

UserIds == 1..MaxUsers
Seconds == 0..MaxClock

AuthPayload(id) == [_id |-> ToHexString(id), access |-> "auth"]

\* Tokens the process signed or could sign, tokens signed with another key, and
\* a token whose payload was rewritten under a genuine signature.
SignedTokens(upTo) ==
  {JwtSign(AuthPayload(u), JWT_SECRET, t) : u \in UserIds, t \in 0..upTo}
ForgedTokens == {JwtSign(AuthPayload(u), OtherKey, 0) : u \in UserIds}
TamperedTokens ==
  {[payload |-> JwtSign(AuthPayload(pair[1]), JWT_SECRET, 0).payload,
    sig |-> JwtSign(AuthPayload(pair[2]), JWT_SECRET, 0).sig] :
      pair \in {q \in UserIds \X UserIds : q[1] # q[2]}}
TokenInputs(upTo) ==
  SignedTokens(upTo) \cup ForgedTokens \cup TamperedTokens
    \cup {GarbageToken, EmptyToken, MissingToken}

\* -------------------------------------------------------------- state

VARIABLES
  db,       \* the users collection: _id -> stored document
  now,      \* the clock, in seconds
  req,      \* each request's position and the document instance it holds
  resp,     \* what the latest step gave a caller, if it completed an operation
  todos,    \* the todos collection: _id -> stored document
  returned, \* history: the tokens generateAuthToken has resolved with
  removed   \* history: the removeToken calls: user, token, entries modified

vars == <<db, now, req, resp, todos, returned, removed>>

Idle == [pc |-> "idle"]

\* A response: the operation, its argument, how its promise settled and with what, and the store operations it performed.
Response(op, arg, outcome) ==
  [op |-> op, arg |-> arg, out |-> outcome.out, val |-> outcome.val,
   store |-> outcome.store]

\* The latest step completed no operation.
NoResponse ==
  Response("none", Null, [out |-> "none", val |-> Null, store |-> <<>>])

Min(S) == CHOOSE x \in S : \A y \in S : x <= y

\* ------------------------------------------------------ the user schema

\* new User(body): a fresh _id, the email trimmed by its setter, no tokens.
\* Every path the body sets is modified.
NewUser(body, id) ==
  LET base == [_id |-> id, tokens |-> <<>>, __v |-> 0]
      withEmail ==
        IF "email" \in DOMAIN body
        THEN [f \in DOMAIN base \cup {"email"} |->
                IF f = "email" THEN Trim(body.email) ELSE base[f]]
        ELSE base
      withPassword ==
        IF "password" \in DOMAIN body
        THEN [f \in DOMAIN withEmail \cup {"password"} |->
                IF f = "password" THEN Plain(body.password) ELSE withEmail[f]]
        ELSE withEmail
  IN [doc |-> withPassword, modified |-> DOMAIN body, isNew |-> TRUE]

\* The schema's validators: the paths that fail.  email is required and must
\* pass isEmail; password carries "require" (an option mongoose does not
\* know), so only minlength applies, and only to a value that is there.
EmailInvalid(doc) ==
  \/ "email" \notin DOMAIN doc
  \/ doc.email = <<>>
  \/ ~IsEmail(doc.email)

\* A schema without the minlength validator.
PasswordNeverInvalid(doc) == FALSE

PasswordInvalid(doc) ==
  /\ "password" \in DOMAIN doc
  /\ ~MinLengthOk(doc.password)

ValidationErrors(doc) ==
  (IF EmailInvalid(doc) THEN {"email"} ELSE {})
    \cup (IF PasswordInvalid(doc) THEN {"password"} ELSE {})

ValidationError(fields) == [name |-> "ValidationError", errors |-> fields]

\* A hook that hashes user.password on every save.
PreSaveAlwaysHashes(user, salt) ==
  [user EXCEPT !.doc.password = BcryptHash(@, salt),
               !.modified = @ \cup {"password"}]

\* A hook that goes on without hashing.
PreSaveSkipsHash(user, salt) == user

\* UserSchema.pre('save'): hash the password when it was modified.
PreSave(user, salt) ==
  IF "password" \in user.modified
  THEN [user EXCEPT !.doc.password = BcryptHash(@, salt)]
  ELSE user

\* ------------------------------------------------------------ the store

Persisted == DOMAIN db

\* A collection without the unique index.
EmailNeverTaken(store, email) == FALSE

EmailTaken(store, email) == \E u \in DOMAIN store : store[u].email = email

MongoDuplicateKey == [name |-> "MongoError", code |-> 11000]
VersionError == [name |-> "VersionError"]
StoreError == [name |-> "MongoError", code |-> 0]

\* insert(doc) under the unique index on email.
InsertDoc(store, doc) ==
  [u \in DOMAIN store \cup {doc._id} |-> IF u = doc._id THEN doc ELSE store[u]]

\* An update that raises the version and sets nothing.
SetModifiedSetsNothing(store, user) ==
  [store EXCEPT ![user.doc._id].__v = @ + 1]

\* update({_id, __v}, {$set: <the modified paths>, $inc: {__v: 1}}): assigning
\* the tokens array makes mongoose send the whole array and version the write.
SetModified(store, user) ==
  LET d == user.doc
      old == store[d._id]
      paths == user.modified \cap DOMAIN d
  IN [store EXCEPT ![d._id] =
        [f \in DOMAIN old \cup paths |->
           IF f \in paths THEN d[f]
           ELSE IF f = "__v" THEN old.__v + 1
           ELSE old[f]]]

\* tokens.splice(indexOf(entry), 1) in place of $pull: the first entry with the
\* token goes, and the last entry when there is none.
PullTokenSplice(store, id, token) ==
  IF id \in DOMAIN store /\ store[id].tokens # <<>>
  THEN LET ts == store[id].tokens
           at == {i \in 1..Len(ts) : ts[i].token = token}
           gone == IF at = {} THEN Len(ts) ELSE CHOOSE i \in at : \A j \in at : i <= j
       IN [store EXCEPT ![id].tokens =
             SubSeq(ts, 1, gone - 1) \o SubSeq(ts, gone + 1, Len(ts))]
  ELSE store

\* update({_id}, {$pull: {tokens: {token}}}): every entry with that token goes;
\* a document that is not there is not an error.
PullToken(store, id, token) ==
  IF id \in DOMAIN store
  THEN [store EXCEPT ![id].tokens = SelectSeq(@, LAMBDA e : e.token # token)]
  ELSE store

\* The write result of that update: the documents matched and modified.
PullResult(store, id, token) ==
  [n |-> IF id \in DOMAIN store THEN 1 ELSE 0,
   nModified |-> IF PullToken(store, id, token) # store THEN 1 ELSE 0]

\* findOne({email})
FindOneByEmail(store, email) ==
  LET found == {u \in DOMAIN store : store[u].email = email}
  IN IF found = {} THEN Null ELSE store[Min(found)]

\* findOne({_id}): the conditions on tokens left out.
FindOneById(store, id, token) ==
  IF id \in DOMAIN store THEN store[id] ELSE Null

\* findOne({_id, 'tokens.token': token, 'tokens.access': 'auth'}): each array
\* condition is met by some entry of tokens.
FindOneByToken(store, id, token) ==
  IF /\ id \in DOMAIN store
     /\ \E i \in 1..Len(store[id].tokens) : store[id].tokens[i].token = token
     /\ \E j \in 1..Len(store[id].tokens) : store[id].tokens[j].access = "auth"
  THEN store[id]
  ELSE Null

IsUser(val) == "_id" \in DOMAIN val

\* -------------------------------------------------- document.save()

\* A save whose update does not ask for the version it read: the last writer
\* wins.
SaveOutcomeUnversioned(store, user, salt, storeOk) ==
  LET errs == ValidationErrors(user.doc)
      hashed == PreSave(user, salt)
      d == hashed.doc
      fail(e, ops) ==
        [out |-> "rejected", val |-> e, store |-> ops, db |-> store, user |-> user]
  IN IF errs # {} THEN fail(ValidationError(errs), <<>>)
     ELSE IF ~storeOk THEN fail(StoreError, <<"write">>)
     ELSE IF user.isNew
     THEN IF EmailTaken(store, d.email)
          THEN fail(MongoDuplicateKey, <<"insert">>)
          ELSE [out |-> "resolved", val |-> d, store |-> <<"insert">>,
                db |-> InsertDoc(store, d),
                user |-> [doc |-> d, modified |-> {}, isNew |-> FALSE]]
     ELSE LET after == SetModified(store, hashed)
          IN [out |-> "resolved", val |-> after[d._id], store |-> <<"update">>,
              db |-> after,
              user |-> [doc |-> [d EXCEPT !.__v = @ + 1], modified |-> {},
                        isNew |-> FALSE]]

\* save(): validation, then the pre-save hook, then one store write: an insert
\* for a new document, a versioned update for a loaded one.  Gives the promise's
\* outcome, the store after it and the document instance after it.
SaveOutcome(store, user, salt, storeOk) ==
  LET errs == ValidationErrors(user.doc)
      hashed == PreSave(user, salt)
      d == hashed.doc
      fail(e, ops) ==
        [out |-> "rejected", val |-> e, store |-> ops, db |-> store, user |-> user]
  IN IF errs # {} THEN fail(ValidationError(errs), <<>>)
     ELSE IF ~storeOk THEN fail(StoreError, <<"write">>)
     ELSE IF user.isNew
     THEN IF EmailTaken(store, d.email)
          THEN fail(MongoDuplicateKey, <<"insert">>)
          ELSE [out |-> "resolved", val |-> d, store |-> <<"insert">>,
                db |-> InsertDoc(store, d),
                user |-> [doc |-> d, modified |-> {}, isNew |-> FALSE]]
     ELSE IF d._id \notin DOMAIN store \/ store[d._id].__v # d.__v
     THEN fail(VersionError, <<"update">>)
     ELSE LET after == SetModified(store, hashed)
          IN [out |-> "resolved", val |-> after[d._id], store |-> <<"update">>,
              db |-> after,
              user |-> [doc |-> [d EXCEPT !.__v = @ + 1], modified |-> {},
                        isNew |-> FALSE]]

\* ------------------------------------------------- the model's methods

\* UserSchema.statics.findByCredentials
FindByCredentialsOutcome(store, creds) ==
  LET user == FindOneByEmail(store, creds.email)
  IN IF ~IsUser(user)
     THEN [out |-> "rejected", val |-> Undefined, store |-> <<"findOne">>]
     ELSE LET cmp == BcryptCompare(creds, user)
          IN IF cmp.res
             THEN [out |-> "resolved", val |-> user, store |-> <<"findOne">>]
             ELSE [out |-> "rejected", val |-> cmp.err, store |-> <<"findOne">>]

\* UserSchema.statics.findByToken
FindByTokenOutcome(store, token) ==
  IF ~JwtVerifies(token, JWT_SECRET)
  THEN [out |-> "rejected", val |-> Undefined, store |-> <<>>]
  ELSE [out |-> "resolved",
        val |-> FindOneByToken(store, CastObjectId(token.payload._id), token),
        store |-> <<"findOne">>]

\* A request that holds a document instance as it was read or saved.
Loaded(doc) ==
  [pc |-> "loaded", user |-> [doc |-> doc, modified |-> {}, isNew |-> FALSE]]

\* ------------------------------------------------------------ actions

Init ==
  /\ db = [u \in {} |-> Null]
  /\ now = 0
  /\ req = [p \in Procs |-> Idle]
  /\ resp = NoResponse
  /\ todos = [t \in {} |-> Null]
  /\ returned = {}
  /\ removed = {}

InFlight == {p \in Procs : req[p].pc = "inserting"}

FreshId ==
  Min(UserIds \ (DOMAIN db \cup {req[p].user.doc._id : p \in InFlight}))

\* register, first step: new User(body), and save() up to its store write.
\* A validation error ends the operation here.
Register(p, body) ==
  /\ req[p].pc = "idle"
  /\ Cardinality(DOMAIN db) + Cardinality(InFlight) < MaxUsers
  /\ LET user == NewUser(body, FreshId)
     IN IF ValidationErrors(user.doc) # {}
        THEN /\ resp' = Response("register", body, SaveOutcome(db, user, 1, TRUE))
             /\ UNCHANGED req
        ELSE /\ req' = [req EXCEPT ![p] =
                          [pc |-> "inserting", body |-> body, user |-> user]]
             /\ resp' = NoResponse
  /\ UNCHANGED <<db, now, todos>>

\* register, second step: the hook and the insert of save().
RegisterSave(p, salt) ==
  /\ req[p].pc = "inserting"
  /\ LET o == SaveOutcome(db, req[p].user, salt, TRUE)
     IN /\ db' = o.db
        /\ resp' = Response("register", req[p].body, o)
        /\ req' = [req EXCEPT ![p] =
                     IF o.out = "resolved" THEN Loaded(o.user.doc) ELSE Idle]
  /\ UNCHANGED <<now, todos>>

\* findByCredentials(email, password)
FindByCredentials(p, creds) ==
  /\ req[p].pc = "idle"
  /\ LET o == FindByCredentialsOutcome(db, creds)
     IN /\ resp' = Response("findByCredentials", creds, o)
        /\ req' = [req EXCEPT ![p] =
                     IF o.out = "resolved" THEN Loaded(o.val) ELSE Idle]
  /\ UNCHANGED <<db, now, todos>>

\* findByToken(token)
FindByToken(p, token) ==
  /\ req[p].pc = "idle"
  /\ LET o == FindByTokenOutcome(db, token)
     IN /\ resp' = Response("findByToken", token, o)
        /\ req' = [req EXCEPT ![p] =
                     IF o.out = "resolved" /\ IsUser(o.val)
                     THEN Loaded(o.val) ELSE Idle]
  /\ UNCHANGED <<db, now, todos>>

\* generateAuthToken, first step: sign, and assign the longer tokens array.
GenerateAuthToken(p) ==
  /\ req[p].pc = "loaded"
  /\ req[p].user.doc.__v < MaxVersion
  /\ LET user == req[p].user
         access == "auth"
         token == JwtSign(AuthPayload(user.doc._id), JWT_SECRET, now)
     IN req' = [req EXCEPT ![p] =
          [pc |-> "saving", token |-> token,
           user |-> [user EXCEPT
                       !.doc.tokens = @ \o <<[access |-> access, token |-> token]>>,
                       !.modified = @ \cup {"tokens"}]]]
  /\ resp' = NoResponse
  /\ UNCHANGED <<db, now, todos>>

\* user.save() not chained: the token is returned whatever the save did.
GenerateAuthTokenIgnoresSave(store, user, token, salt, storeOk) ==
  LET o == SaveOutcome(store, user, salt, storeOk)
  IN [o EXCEPT !.out = "resolved", !.val = token]

\* What generateAuthToken's promise gives: user.save().then(() => token)
GenerateAuthTokenOutcome(store, user, token, salt, storeOk) ==
  LET o == SaveOutcome(store, user, salt, storeOk)
  IN IF o.out = "resolved" THEN [o EXCEPT !.val = token] ELSE o

\* generateAuthToken, second step: the save, and what the caller gets.
TokenSave(p, salt, storeOk) ==
  /\ req[p].pc = "saving"
  /\ LET o == GenerateAuthTokenOutcome(db, req[p].user, req[p].token, salt,
                                       storeOk)
     IN /\ db' = o.db
        /\ resp' = Response("generateAuthToken", req[p].user.doc._id, o)
        /\ req' = [req EXCEPT ![p] =
                     IF o.out = "resolved" THEN Loaded(o.user.doc) ELSE Idle]
  /\ UNCHANGED <<now, todos>>

\* removeToken(token): the update goes to the store; the instance is not
\* refreshed.
RemoveToken(p, token) ==
  /\ req[p].pc = "loaded"
  /\ db' = PullToken(db, req[p].user.doc._id, token)
  /\ resp' = Response("removeToken",
                      [_id |-> req[p].user.doc._id, token |-> token],
                      [out |-> "resolved",
                       val |-> PullResult(db, req[p].user.doc._id, token),
                       store |-> <<"update">>])
  /\ UNCHANGED <<now, req, todos>>

\* The request ends; its document instance is dropped.
Release(p) ==
  /\ req[p].pc = "loaded"
  /\ req' = [req EXCEPT ![p] = Idle]
  /\ resp' = NoResponse
  /\ UNCHANGED <<db, now, todos>>

\* A second passes.
Tick ==
  /\ now < MaxClock
  /\ now' = now + 1
  /\ resp' = NoResponse
  /\ UNCHANGED <<db, req, todos>>

\* UserSchema.methods.toJSON: only _id and email leave the server.
ToJSON(doc) == [f \in {"_id", "email"} \cap DOMAIN doc |-> doc[f]]

EmptyBody == [f \in {} |-> Null]

\* GET /users/me behind the authentication middleware: the x-auth header goes
\* to findByToken; a rejection or no user is answered 401 with an empty body,
\* a user is answered 200 with its JSON form.
GetUsersMeOutcome(store, token) ==
  LET o == FindByTokenOutcome(store, token)
  IN IF o.out = "resolved" /\ IsUser(o.val)
     THEN [out |-> "sent", val |-> [status |-> 200, body |-> ToJSON(o.val)],
           store |-> o.store]
     ELSE [out |-> "sent", val |-> [status |-> 401, body |-> EmptyBody],
           store |-> o.store]

GetUsersMe(p, token) ==
  /\ req[p].pc = "idle"
  /\ resp' = Response("GET /users/me", token, GetUsersMeOutcome(db, token))
  /\ UNCHANGED <<db, now, req, todos>>

\* ------------------------------------------------------ the todo routes

\* Object ids in requests are strings: sequences of characters.
HexDigits ==
  {"0", "1", "2", "3", "4", "5", "6", "7", "8", "9",
   "a", "b", "c", "d", "e", "f", "A", "B", "C", "D", "E", "F"}

\* An isValid that lets every string through.
ObjectIDIsValidAlways(id) == TRUE

\* ObjectID.isValid of a string: 12 characters, or 24 hexadecimal digits.
ObjectIDIsValid(id) ==
  \/ Len(id) = 12
  \/ Len(id) = 24 /\ \A i \in 1..Len(id) : id[i] \in HexDigits

\* The lower-case form of a hexadecimal digit, and the two digits of a
\* character's code (for the characters requests carry here).
LowerHex(c) ==
  CASE c = "A" -> "a" [] c = "B" -> "b" [] c = "C" -> "c"
    [] c = "D" -> "d" [] c = "E" -> "e" [] c = "F" -> "f" [] OTHER -> c

CharCodeHex(c) ==
  CASE c = "z" -> <<"7", "a">> [] c = "0" -> <<"3", "0">> [] OTHER -> <<"3", "f">>

RECURSIVE BytesToHex(_)
BytesToHex(s) ==
  IF s = <<>> THEN <<>> ELSE CharCodeHex(Head(s)) \o BytesToHex(Tail(s))

\* The cast findById applies to its argument, as the id's toHexString():
\* 24 hexadecimal digits are the id, 12 characters are its bytes, anything
\* else is a CastError.
CastError == [name |-> "CastError"]

CastToObjectId(id) ==
  IF Len(id) = 24 /\ \A i \in 1..Len(id) : id[i] \in HexDigits
  THEN [i \in 1..24 |-> LowerHex(id[i])]
  ELSE IF Len(id) = 12 THEN BytesToHex(id)
  ELSE CastError

\* new ObjectID().toHexString() of the n-th todo.
TodoId(n) ==
  [i \in 1..24 |->
     IF i < 23 THEN "0"
     ELSE IF i = 23 THEN "a"
     ELSE CHOOSE d \in HexDigits : d = ToString(n)]

TodoIds == {TodoId(n) : n \in 1..MaxTodos}

\* The :id a GET may carry: the ids of todos, one of them in upper case
\* spelling, a well-formed id no todo has, twelve characters, and strings
\* that are no object id.
TodoIdInputs ==
  TodoIds
    \cup {[i \in 1..24 |-> IF i < 23 THEN "0" ELSE IF i = 23 THEN "A" ELSE "1"],
          [i \in 1..24 |-> IF i < 24 THEN "0" ELSE "f"],
          [i \in 1..24 |-> IF i < 24 THEN "0" ELSE "g"],
          [i \in 1..12 |-> "z"],
          <<"1", "2", "3">>}

\* The text a POST may carry; the body may have none.
TodoTexts == {"Test todo text", "Walk the dog"}
TodoBodies == [text : TodoTexts] \cup {EmptyBody}

\* new Todo({text: req.body.text}): an absent text leaves the path unset.
NewTodo(body, id) ==
  IF "text" \in DOMAIN body
  THEN [_id |-> id, text |-> body.text, __v |-> 0]
  ELSE [_id |-> id, __v |-> 0]

\* The Todo schema's validators: text is required.
TodoValidationErrors(doc) == IF "text" \notin DOMAIN doc THEN {"text"} ELSE {}

\* A save that reports success and writes nothing.
InsertTodoWritesNothing(store, doc) == store

\* insert(doc) into the todos collection.
InsertTodo(store, doc) ==
  [t \in DOMAIN store \cup {doc._id} |-> IF t = doc._id THEN doc ELSE store[t]]

\* Todo.findById(id): the cast, then findOne({_id}).
FindById(store, id) ==
  LET oid == CastToObjectId(id)
  IN IF oid = CastError THEN [out |-> "rejected", val |-> CastError]
     ELSE IF oid \in DOMAIN store THEN [out |-> "resolved", val |-> store[oid]]
     ELSE [out |-> "resolved", val |-> Null]

Sent(status, body, ops, store) ==
  [out |-> "sent", val |-> [status |-> status, body |-> body], store |-> ops,
   todos |-> store]

\* app.post('/todos'): todo.save().then(doc => res.send(doc),
\*                                      e => res.status(400).send(e))
PostTodosOutcome(store, body, id, storeOk) ==
  LET todo == NewTodo(body, id)
      errs == TodoValidationErrors(todo)
  IN IF errs # {} THEN Sent(400, ValidationError(errs), <<>>, store)
     ELSE IF ~storeOk THEN Sent(400, StoreError, <<"insert">>, store)
     ELSE Sent(200, todo, <<"insert">>, InsertTodo(store, todo))

FreshTodoId == TodoId(Min({n \in 1..MaxTodos : TodoId(n) \notin DOMAIN todos}))

PostTodos(body, storeOk) ==
  /\ Cardinality(DOMAIN todos) < MaxTodos
  /\ LET o == PostTodosOutcome(todos, body, FreshTodoId, storeOk)
     IN /\ todos' = o.todos
        /\ resp' = Response("POST /todos", body, o)
  /\ UNCHANGED <<db, now, req>>

\* app.get('/todos/:id')
GetTodoOutcome(store, id, storeOk) ==
  IF ~ObjectIDIsValid(id) THEN Sent(404, EmptyBody, <<>>, store)
  ELSE LET found == FindById(store, id)
       IN IF ~storeOk \/ found.out = "rejected"
          THEN Sent(400, EmptyBody, <<"findOne">>, store)
          ELSE IF found.val = Null
          THEN Sent(404, EmptyBody, <<"findOne">>, store)
          ELSE Sent(200, [todo |-> found.val], <<"findOne">>, store)

GetTodo(id, storeOk) ==
  /\ LET o == GetTodoOutcome(todos, id, storeOk)
     IN /\ todos' = o.todos
        /\ resp' = Response("GET /todos/:id", id, o)
  /\ UNCHANGED <<db, now, req>>

\* app.get('/todos')
GetTodosOutcome(store, storeOk) ==
  IF ~storeOk THEN Sent(400, StoreError, <<"find">>, store)
  ELSE Sent(200, [todos |-> {store[t] : t \in DOMAIN store}], <<"find">>, store)

GetTodos(storeOk) ==
  /\ LET o == GetTodosOutcome(todos, storeOk)
     IN /\ todos' = o.todos
        /\ resp' = Response("GET /todos", Null, o)
  /\ UNCHANGED <<db, now, req>>

\* ------------------------------------------------------------ history

\* The history variables stay as they are.
NoHistory == UNCHANGED <<returned, removed>>

\* The history variables take in what the step just gave its caller.
RecordHistory ==
  /\ returned' =
       IF resp'.op = "generateAuthToken" /\ resp'.out = "resolved"
       THEN returned \cup {<<resp'.arg, resp'.val>>} ELSE returned
  /\ removed' =
       IF resp'.op = "removeToken"
       THEN removed \cup {<<resp'.arg._id, resp'.arg.token, resp'.val.nModified>>}
       ELSE removed

\* ------------------------------------------------------ specifications

\* The whole subsystem, from an empty collection.
Next ==
  \/ \E p \in Procs, body \in Bodies : Register(p, body) /\ NoHistory
  \/ \E p \in Procs, salt \in Salts : RegisterSave(p, salt) /\ NoHistory
  \/ \E p \in Procs, creds \in Credentials :
       FindByCredentials(p, creds) /\ NoHistory
  \/ \E p \in Procs, token \in TokenInputs(now) :
       FindByToken(p, token) /\ NoHistory
  \/ \E p \in Procs, token \in TokenInputs(now) :
       GetUsersMe(p, token) /\ NoHistory
  \/ \E p \in Procs : GenerateAuthToken(p) /\ NoHistory
  \/ \E p \in Procs, salt \in Salts, storeOk \in BOOLEAN :
       TokenSave(p, salt, storeOk) /\ RecordHistory
  \/ \E p \in Procs, token \in SignedTokens(now) \cup {GarbageToken} :
       RemoveToken(p, token) /\ RecordHistory
  \/ \E p \in Procs : Release(p) /\ NoHistory
  \/ Tick /\ NoHistory
  \/ \E body \in TodoBodies, storeOk \in BOOLEAN :
       PostTodos(body, storeOk) /\ NoHistory
  \/ \E id \in TodoIdInputs, storeOk \in BOOLEAN :
       GetTodo(id, storeOk) /\ NoHistory
  \/ \E storeOk \in BOOLEAN : GetTodos(storeOk) /\ NoHistory

Spec == Init /\ [][Next]_vars

\* Registration and login: the operations that read or write email and
\* password.
NextRegister ==
  \/ \E p \in Procs, body \in Bodies : Register(p, body) /\ NoHistory
  \/ \E p \in Procs, salt \in Salts : RegisterSave(p, salt) /\ NoHistory
  \/ \E p \in Procs, creds \in Credentials :
       FindByCredentials(p, creds) /\ NoHistory
  \/ \E p \in Procs : Release(p) /\ NoHistory

SpecRegister == Init /\ [][NextRegister]_vars

\* Sessions: the operations on tokens, over a collection in which two users
\* have registered (a state SpecRegister reaches).
RegisteredUser(id, email, salt) ==
  SaveOutcome([u \in {} |-> Null],
              NewUser([email |-> email, password |-> "password123"], id),
              salt, TRUE).val

RegisteredUsers ==
  [u \in {1, 2} |->
     IF u = 1 THEN RegisteredUser(1, EmailA, 1) ELSE RegisteredUser(2, EmailB, 2)]

InitSession ==
  /\ db = RegisteredUsers
  /\ now = 0
  /\ req = [p \in Procs |-> Idle]
  /\ resp = NoResponse
  /\ todos = [t \in {} |-> Null]
  /\ returned = {}
  /\ removed = {}

LoginCredentials == [email : {EmailA, EmailB}, password : {"password123"}]

NextSession ==
  \/ \E p \in Procs, creds \in LoginCredentials :
       FindByCredentials(p, creds) /\ NoHistory
  \/ \E p \in Procs, token \in TokenInputs(now) :
       FindByToken(p, token) /\ NoHistory
  \/ \E p \in Procs, token \in SignedTokens(now) \cup {MissingToken} :
       GetUsersMe(p, token) /\ NoHistory
  \/ \E p \in Procs : GenerateAuthToken(p) /\ NoHistory
  \/ \E p \in Procs, salt \in Salts, storeOk \in BOOLEAN :
       TokenSave(p, salt, storeOk) /\ NoHistory
  \/ \E p \in Procs, token \in SignedTokens(now) \cup {GarbageToken} :
       RemoveToken(p, token) /\ NoHistory
  \/ \E p \in Procs : Release(p) /\ NoHistory
  \/ Tick /\ NoHistory

SpecSession == InitSession /\ [][NextSession]_vars

\* The lifecycle of one user's tokens: the requests of SpecSession that log in
\* as the first user and work on that user's tokens, with the history of what
\* callers were given.
OwnTokens(id, upTo) ==
  {JwtSign(AuthPayload(id), JWT_SECRET, t) : t \in 0..upTo}

NextLifecycle ==
  \/ \E p \in Procs :
       FindByCredentials(p, [email |-> EmailA, password |-> "password123"])
         /\ NoHistory
  \/ \E p \in Procs, token \in OwnTokens(1, now) :
       FindByToken(p, token) /\ NoHistory
  \/ \E p \in Procs : GenerateAuthToken(p) /\ NoHistory
  \/ \E p \in Procs, storeOk \in BOOLEAN :
       TokenSave(p, 1, storeOk) /\ RecordHistory
  \/ \E p \in Procs, token \in OwnTokens(1, now) :
       RemoveToken(p, token) /\ RecordHistory
  \/ \E p \in Procs : Release(p) /\ NoHistory
  \/ Tick /\ NoHistory

SpecLifecycle == InitSession /\ [][NextLifecycle]_vars

\* The todo routes, from an empty collection.
NextTodo ==
  \/ \E body \in TodoBodies, storeOk \in BOOLEAN :
       PostTodos(body, storeOk) /\ NoHistory
  \/ \E id \in TodoIdInputs, storeOk \in BOOLEAN :
       GetTodo(id, storeOk) /\ NoHistory
  \/ \E storeOk \in BOOLEAN : GetTodos(storeOk) /\ NoHistory

SpecTodo == Init /\ [][NextTodo]_vars

\* --------------------------------------------------------- properties

Tokens(store, id) == {store[id].tokens[i].token : i \in 1..Len(store[id].tokens)}

\* C1: round trip.  Right after generateAuthToken has resolved with a token for
\* a user, findByToken of that token resolves to the user with that id.
C1_RoundTrip ==
  (resp.op = "generateAuthToken" /\ resp.out = "resolved") =>
    LET found == FindByTokenOutcome(db, resp.val)
    IN /\ found.out = "resolved"
       /\ IsUser(found.val)
       /\ found.val._id = resp.arg

\* A second session of one user has just been issued.
C1_Witness ==
  /\ resp.op = "generateAuthToken"
  /\ resp.out = "resolved"
  /\ Len(db[resp.arg].tokens) > 1

\* C2: revocation.  Right after removeToken has removed a token from the user's
\* list, findByToken of that token is rejected.
C2_RevokedTokenRejected ==
  (resp.op = "removeToken" /\ resp.val.nModified = 1) =>
    FindByTokenOutcome(db, resp.arg.token).out = "rejected"

\* What the code gives instead: the promise resolves, with no user.
RevokedTokenResolvesNoUser ==
  (resp.op = "removeToken" /\ resp.val.nModified = 1) =>
    LET found == FindByTokenOutcome(db, resp.arg.token)
    IN found.out = "resolved" /\ found.val = Null

\* C3: no account enumeration.  A login with the right password resolves to
\* the user, and a rejected login for a registered email gives the caller the
\* same value as a login for an email nobody registered.
C3_NoAccountEnumeration ==
  /\ \A u \in DOMAIN db :
       "password" \in DOMAIN db[u] =>
         LET right == FindByCredentialsOutcome(
                        db, [email |-> db[u].email,
                             password |-> db[u].password.text])
         IN right.out = "resolved" /\ right.val = db[u]
  /\ (resp.op = "findByCredentials" /\ resp.out = "rejected") =>
       \A unknown \in Credentials :
         (~\E u \in DOMAIN db : db[u].email = unknown.email) =>
           FindByCredentialsOutcome(db, unknown).val = resp.val

\* Bodies with a well-formed email and a password of 8 characters or more.
ValidBodies ==
  [email : {EmailA, <<" ">> \o EmailA, EmailB}, password : {"password123"}]

\* C4: no stored password is a plaintext.  Every stored password is a bcrypt
\* hash and differs from every plaintext a request can carry; a register with
\* a well-formed, free email and a password of 8 characters or more resolves,
\* and what its insert stored is the hash of the password it was given.
C4_PasswordHashed ==
  /\ \A u \in DOMAIN db :
       "password" \in DOMAIN db[u] =>
         /\ Len(db[u].password.salts) = 1
         /\ \A text \in PasswordInputs : db[u].password # Plain(text)
  /\ (resp.op = "register" /\ resp.arg \in ValidBodies
        /\ resp.val # MongoDuplicateKey) =>
       /\ resp.out = "resolved"
       /\ resp.store = <<"insert">>
       /\ db[resp.val._id] = resp.val
       /\ resp.val.password.text = resp.arg.password
       /\ resp.val.password # Plain(resp.arg.password)

\* A register has just stored a user with a password.
C4_Witness ==
  /\ resp.op = "register"
  /\ resp.out = "resolved"
  /\ "password" \in DOMAIN db[resp.val._id]

\* C5: email uniqueness.  No step leaves two stored users with one email, and
\* a register whose (trimmed) email a stored user has is rejected and leaves
\* the collection as it was.
C5_EmailUnique ==
  [][/\ \A u, w \in DOMAIN db' : u # w => db'[u].email # db'[w].email
     /\ (/\ resp'.op = "register"
         /\ "email" \in DOMAIN resp'.arg
         /\ \E u \in DOMAIN db : db[u].email = Trim(resp'.arg.email)) =>
          (resp'.out = "rejected" /\ db' = db)]_vars

\* A register was rejected for its email while another request holds the user
\* registered under it.
C5_Witness ==
  /\ resp.op = "register"
  /\ resp.val = MongoDuplicateKey
  /\ \E p \in Procs :
       /\ req[p].pc = "loaded"
       /\ req[p].user.doc.email = Trim(resp.arg.email)
       /\ req[p].user.doc \in {db[u] : u \in DOMAIN db}

BadEmail(body) ==
  "email" \notin DOMAIN body \/ body.email \in {<<"a", "x">>, <<" ">>}

ShortPassword(body) == "password" \in DOMAIN body /\ Len(body.password) < 8

\* C6: registration validation.  A register with a malformed email is rejected
\* with a ValidationError naming email, one with a short password with a
\* ValidationError naming password; the error names exactly the failing
\* fields, the duplicate-email error is a different value, and a rejected
\* register stores nothing.
C6_RegistrationValidation ==
  [][resp'.op = "register" =>
       LET body == resp'.arg
           failing == (IF BadEmail(body) THEN {"email"} ELSE {})
                        \cup (IF ShortPassword(body) THEN {"password"} ELSE {})
       IN /\ failing # {} =>
               /\ resp'.out = "rejected"
               /\ resp'.val = ValidationError(failing)
               /\ resp'.store = <<>>
          /\ (failing = {} /\ resp'.out = "rejected") =>
               /\ resp'.val = MongoDuplicateKey
               /\ resp'.val \notin {ValidationError(f) : f \in SUBSET {"email", "password"}}
          /\ resp'.out = "rejected" => db' = db]_vars

\* A register was rejected for its password alone.
C6_Witness ==
  /\ resp.op = "register"
  /\ resp.out = "rejected"
  /\ resp.val = ValidationError({"password"})

\* C7: no trust in an unverified token.  For every token the process secret did
\* not sign, findByToken is rejected without a store lookup, and GET /users/me
\* is answered 401 with an empty body; the latest response agrees.
C7_UnverifiedTokenRejected ==
  /\ \A token \in TokenInputs(MaxClock) \ SignedTokens(MaxClock) :
       /\ FindByTokenOutcome(db, token).out = "rejected"
       /\ FindByTokenOutcome(db, token).store = <<>>
       /\ GetUsersMeOutcome(db, token).val.status = 401
       /\ DOMAIN GetUsersMeOutcome(db, token).val.body = {}
  /\ (resp.op = "findByToken" /\ resp.arg \notin SignedTokens(MaxClock)) =>
       /\ resp.out = "rejected"
       /\ resp.store = <<>>

\* findByToken was just called with the payload of a user who has a stored
\* session, under another token's signature.
C7_Witness ==
  /\ resp.op = "findByToken"
  /\ resp.arg \in TamperedTokens
  /\ resp.out = "rejected"
  /\ Len(db[CastObjectId(resp.arg.payload._id)].tokens) > 0

\* C8: the token is returned only for a write that succeeded.  When
\* generateAuthToken resolves, its value is the token, the save's update was
\* applied and the stored list ends with that token; when it is rejected, the
\* caller gets an error, no token, and the collection is as it was.
C8_TokenOnlyAfterWrite ==
  [][resp'.op = "generateAuthToken" =>
       LET id == resp'.arg
       IN /\ resp'.out \in {"resolved", "rejected"}
          /\ resp'.out = "resolved" =>
               /\ "payload" \in DOMAIN resp'.val
               /\ resp'.store = <<"update">>
               /\ db'[id].__v = db[id].__v + 1
               /\ Len(db'[id].tokens) > 0
               /\ db'[id].tokens[Len(db'[id].tokens)].token = resp'.val
          /\ resp'.out = "rejected" =>
               /\ "payload" \notin DOMAIN resp'.val
               /\ resp'.val \in {VersionError, StoreError}
               /\ db' = db]_vars

\* A save lost to a concurrent save of the same user: the caller got a
\* VersionError.
C8_Witness ==
  /\ resp.op = "generateAuthToken"
  /\ resp.out = "rejected"
  /\ resp.val = VersionError

\* C9: removeToken is idempotent.  It always resolves; when the user's stored
\* list has no entry with the token the collection is as it was; and a second
\* removeToken of the same token right after changes nothing.
C9_RemoveTokenIdempotent ==
  [][resp'.op = "removeToken" =>
       LET id == resp'.arg._id
           token == resp'.arg.token
       IN /\ resp'.out = "resolved"
          /\ token \notin Tokens(db, id) => (db' = db /\ resp'.val.nModified = 0)
          /\ token \notin Tokens(db', id)
          /\ PullToken(db', id, token) = db']_vars

\* removeToken was just called for a token the user's non-empty list did not
\* hold.
C9_Witness ==
  /\ resp.op = "removeToken"
  /\ resp.val.nModified = 0
  /\ Len(db[resp.arg._id].tokens) > 0

\* C10: the password is required.  Every stored user has a password, and it is
\* a bcrypt hash.
C10_PasswordRequired ==
  \A u \in DOMAIN db :
    "password" \in DOMAIN db[u] /\ IsBcryptHash(db[u].password)

\* A body with no text to store.
NoText(body) == "text" \notin DOMAIN body

TodoWithId(id) ==
  {t \in DOMAIN todos :
     \/ Len(id) = 24 /\ \A i \in 1..24 : LowerHex(id[i]) = t[i]
     \/ Len(id) = 12 /\ BytesToHex(id) = t}

Accepted(store, id, token) ==
  LET found == FindByTokenOutcome(store, token)
  IN found.out = "resolved" /\ IsUser(found.val) /\ found.val._id = id

\* C13: the lifecycle of a token is monotone.  In every reachable state, a
\* token that removeToken has removed from its user's stored list is not in
\* that list, and findByToken of it does not resolve to the user.
C13_RevokedStaysRevoked ==
  \A call \in removed :
    call[3] = 1 =>
      /\ call[2] \notin Tokens(db, call[1])
      /\ ~Accepted(db, call[1], call[2])

\* The tokens generateAuthToken has resolved with for which removeToken was
\* not called.
LiveSessions ==
  {r \in returned : ~\E call \in removed : call[1] = r[1] /\ call[2] = r[2]}

\* C14: no lost session.  In every reachable state, every token that
\* generateAuthToken has resolved with, and that removeToken was not called
\* with, is in its user's stored list and findByToken resolves it to the user.
C14_NoLostSession ==
  \A r \in LiveSessions :
    /\ r[2] \in Tokens(db, r[1])
    /\ Accepted(db, r[1], r[2])

\* Two requests worked from copies of one user: one save was applied, the other
\* has just lost to it, and the session the first returned is live.
C14_Witness ==
  /\ resp.op = "generateAuthToken"
  /\ resp.val = VersionError
  /\ \E r \in LiveSessions : r[1] = resp.arg

\* C15: token strings are unique.  In every reachable state no stored tokens
\* list holds the same token at two positions, so that a removeToken takes at
\* most one entry out.
C15_TokenStringsUnique ==
  \A u \in DOMAIN db :
    \A i, j \in 1..Len(db[u].tokens) :
      db[u].tokens[i].token = db[u].tokens[j].token => i = j

\* What a removeToken step leaves alone: every other user's document, and of
\* the user's own document everything but tokens, whose entries with another
\* token stay, in their order.
RemoveTokenFrame(id, token) ==
  /\ DOMAIN db' = DOMAIN db
  /\ \A u \in DOMAIN db : u # id => db'[u] = db[u]
  /\ id \in DOMAIN db =>
       /\ \A f \in DOMAIN db[id] \ {"tokens"} : db'[id][f] = db[id][f]
       /\ db'[id].tokens = SelectSeq(db[id].tokens, LAMBDA e : e.token # token)

\* C16: the frame of removeToken.  A removeToken step changes nothing but the
\* user's tokens list, takes at most one entry out of it (the session the token
\* was issued for; every other session stays), and keeps the other entries in
\* their order.
C16_RemoveTokenFrame ==
  [][resp'.op = "removeToken" =>
       /\ RemoveTokenFrame(resp'.arg._id, resp'.arg.token)
       /\ Len(db'[resp'.arg._id].tokens) >= Len(db[resp'.arg._id].tokens) - 1]_vars

\* What the code gives: the frame, for every entry with another token string.
RemoveTokenKeepsOtherStrings ==
  [][resp'.op = "removeToken" =>
       RemoveTokenFrame(resp'.arg._id, resp'.arg.token)]_vars

\* C17: token ownership.  In every reachable state every stored entry has
\* access "auth" and a token whose payload carries the id of the user it is
\* stored under; and for every token a request can carry, findByToken resolves
\* to a user only if that user's id is the one in the token's payload and the
\* user's stored list has an entry with exactly that token and access "auth".
C17_TokenOwnership ==
  /\ \A u \in DOMAIN db :
       \A i \in 1..Len(db[u].tokens) :
         /\ db[u].tokens[i].access = "auth"
         /\ JwtVerifies(db[u].tokens[i].token, JWT_SECRET)
         /\ db[u].tokens[i].token.payload._id = ToHexString(u)
  /\ \A token \in TokenInputs(MaxClock) :
       LET found == FindByTokenOutcome(db, token)
       IN (found.out = "resolved" /\ IsUser(found.val)) =>
            /\ ToHexString(found.val._id) = token.payload._id
            /\ found.val = db[found.val._id]
            /\ \E i \in 1..Len(found.val.tokens) :
                 found.val.tokens[i] = [access |-> "auth", token |-> token]
  /\ (resp.op = "findByToken" /\ resp.out = "resolved" /\ IsUser(resp.val)) =>
       ToHexString(resp.val._id) = resp.arg.payload._id

\* findByToken has just resolved to the second user while the first has a
\* session too.
C17_Witness ==
  /\ resp.op = "findByToken"
  /\ resp.out = "resolved"
  /\ IsUser(resp.val)
  /\ resp.val._id = 2
  /\ Len(db[1].tokens) > 0
  /\ Len(db[2].tokens) > 0

\* C18: hashing happens only when the password changed.  Whatever
\* generateAuthToken saves and removeToken updates have been applied, every
\* user's stored email and password hash are those of its registration, and
\* findByCredentials with the email and the password it registered with resolves
\* to the stored user.
C18_HashOnlyWhenChanged ==
  \A u \in DOMAIN db :
    /\ db[u].email = RegisteredUsers[u].email
    /\ db[u].password = RegisteredUsers[u].password
    /\ LET login == FindByCredentialsOutcome(
                      db, [email |-> db[u].email, password |-> "password123"])
       IN login.out = "resolved" /\ login.val = db[u]

\* A user's document has been saved twice by generateAuthToken, and removeToken
\* has just taken an entry out of its list.
C18_Witness ==
  /\ resp.op = "removeToken"
  /\ resp.val.nModified = 1
  /\ db[resp.arg._id].__v = 2

\* C19: token list growth.  A generateAuthToken that resolves leaves the
\* user's stored list as it was with one entry {access: "auth", token} added at
\* its end, and no other step makes a stored list longer.
C19_TokenListGrowth ==
  [][/\ (resp'.op = "generateAuthToken" /\ resp'.out = "resolved") =>
          db'[resp'.arg].tokens =
            Append(db[resp'.arg].tokens, [access |-> "auth", token |-> resp'.val])
     /\ \A u \in DOMAIN db :
          Len(db'[u].tokens) > Len(db[u].tokens) =>
            (resp'.op = "generateAuthToken" /\ resp'.out = "resolved"
               /\ resp'.arg = u)]_vars

\* What the code gives: the stored list becomes the list of the instance that
\* was saved, which ends with the new entry; only a generateAuthToken that
\* resolves makes a stored list longer.
TokenListBecomesInstanceList ==
  [][/\ (resp'.op = "generateAuthToken" /\ resp'.out = "resolved") =>
          \E p \in Procs :
            /\ req[p].pc = "saving"
            /\ req'[p].pc = "loaded"
            /\ db'[resp'.arg].tokens = req[p].user.doc.tokens
            /\ db'[resp'.arg].tokens[Len(db'[resp'.arg].tokens)] =
                 [access |-> "auth", token |-> resp'.val]
     /\ \A u \in DOMAIN db :
          Len(db'[u].tokens) > Len(db[u].tokens) =>
            (resp'.op = "generateAuthToken" /\ resp'.out = "resolved"
               /\ resp'.arg = u)]_vars

====
